---- MODULE Spec2Model ----
(***************************************************************************)
(* Navigation widget of the portfolio homepage (app/components/Navigation) *)
(* as a state machine: the isMobileMenuOpen flag of every mounted          *)
(* instance, what the last render put in the DOM, the document-level       *)
(* listeners the effect holds, and the browser state the links act on      *)
(* (URL, scroll offset, focus, viewport).                                  *)
(*                                                                         *)
(* An event is one action: the handler, the re-render React flushes for a  *)
(* discrete event, and the effect cleanup/run of that commit.              *)
(*                                                                         *)
(* Spec is the page as built: the one instance of the Header and every     *)
(* event of its window. SpecTwo puts two instances in one document.        *)
(* SpecPage is the catalog module with the Header and Footer shells.       *)
(***************************************************************************)
EXTENDS Integers, Sequences, FiniteSets, TLC

\* ------------------------------------------------------------------ bounds
MaxLinks == 2
MaxScroll == 1
MaxCatalog == 2
MaxYears == 2

\* ---------------------------------------------------------------- catalog
NAV_LINKS ==
  << [id |-> "home", label |-> "Home", href |-> "/",
      action |-> "scroll-to-top", order |-> 0],
     [id |-> "work", label |-> "Work", href |-> "#",
      action |-> "placeholder", order |-> 1],
     [id |-> "about", label |-> "About", href |-> "#",
      action |-> "placeholder", order |-> 2],
     [id |-> "contact", label |-> "Contact", href |-> "#",
      action |-> "placeholder", order |-> 3] >>

\* the link of the schema test that carries the third action tag
NavigateFixture ==
  [id |-> "work", label |-> "Work", href |-> "#work",
   action |-> "navigate", order |-> 0]

LinkPool == {NAV_LINKS[1], NAV_LINKS[2], NavigateFixture}

\* the links prop: any sequence of distinct pool links, the empty one
\* included, written in any order
LinkInputs ==
  {ls \in UNION {[1..n -> LinkPool] : n \in 0..MaxLinks} :
     \A a, b \in 1..Len(ls) : ls[a] = ls[b] => a = b}

\* ------------------------------------------------------------------ sorting
\* Insert x into the sorted sequence s after every element that does not
\* compare greater (Array.prototype.sort is stable).
RECURSIVE InsertByOrder(_, _)
InsertByOrder(s, x) ==
  IF s = << >> THEN << x >>
  ELSE IF x.order - s[1].order < 0 THEN << x >> \o s
  ELSE << s[1] >> \o InsertByOrder(Tail(s), x)

RECURSIVE SortByOrder(_)
SortByOrder(s) ==
  IF s = << >> THEN << >>
  ELSE InsertByOrder(SortByOrder(SubSeq(s, 1, Len(s) - 1)), s[Len(s)])

SortInPlace(arr) == [sorted |-> SortByOrder(arr), source |-> SortByOrder(arr)]

\* [...arr].sort(compare): sort sorts its receiver, which is the copy the
\* spread made; source is the array arr names after the call
SortCopy(arr) == [sorted |-> SortByOrder(arr), source |-> arr]

sortedLinksAsGiven(ls) == ls

\* useMemo(() => [...links].sort((a, b) => a.order - b.order), [links])
sortedLinks(ls) == SortCopy(ls).sorted

\* ------------------------------------------------------------- the document
Widgets == {1, 2}

\* the instance the Header renders
HeaderNavigation == 1
EventTypes == {"mousedown", "keydown", "keyup"}
Keys == {"Escape", "Enter"}
Viewports == {"narrow", "wide"}

Body == [part |-> "body", w |-> 0]
Targets == {Body} \cup
           {[part |-> p, w |-> i] : p \in {"toggle", "inline", "drawer"}, i \in Widgets}

StartsWithSlash(h) == h \in {"/"}

\* URL after following href from url: a path replaces the URL, an anchor
\* keeps the path and replaces the fragment
Navigate(url, h) ==
  IF StartsWithSlash(h) THEN [path |-> h, frag |-> ""]
  ELSE [path |-> url.path, frag |-> h]

\* scroll offsets the browser can end at after following href
ScrollAfter(h, y) ==
  IF StartsWithSlash(h) \/ h = "#" THEN {0} ELSE 0..MaxScroll

VARIABLES
  links,             \* the links prop handed to every instance
  mounted,           \* mounted[i]: instance i is in the tree
  isMobileMenuOpen,  \* the useState flag of instance i
  dom,               \* what the last render of instance i committed
  listeners,         \* listeners[e][i]: document listeners of i for event e
  location,          \* current URL
  scrollY,           \* vertical scroll offset of the viewport
  focus,             \* element holding keyboard focus
  viewport,          \* side of the sm breakpoint the window is on
  last,              \* the event handled last, with the state before it
  run,               \* the current streak of toggle activations
  chain,             \* the current streak of closing events
  taps,              \* parity of the toggle activations since the mount
  page               \* the page around the widget: catalog module, shells, clock

widgetVars == << links, mounted, isMobileMenuOpen, dom, listeners, location,
                 scrollY, focus, viewport, last, run, chain, taps >>

vars == << widgetVars, page >>

\* ---------------------------------------------------------------- rendering
NoDom == [nav |-> FALSE, closure |-> FALSE, ariaExpanded |-> FALSE, drawer |-> FALSE,
          exiting |-> FALSE, inline |-> << >>, drawerList |-> << >>]

AriaExpandedStale(open) == FALSE

\* aria-expanded={isMobileMenuOpen}
AriaExpanded(open) == open

RenderDrawerAlways(ls, open) ==
  [nav |-> TRUE,
   closure |-> open,
   ariaExpanded |-> AriaExpanded(open),
   drawer |-> open,
   exiting |-> FALSE,
   inline |-> sortedLinks(ls),
   drawerList |-> sortedLinks(ls)]

RenderNullOnEmpty(ls, open) ==
  IF ls = << >> THEN NoDom
  ELSE [nav |-> TRUE,
        closure |-> open,
        ariaExpanded |-> AriaExpanded(open),
        drawer |-> open,
        exiting |-> FALSE,
        inline |-> sortedLinks(ls),
        drawerList |-> IF open THEN sortedLinks(ls) ELSE << >>]

\* JSX of Navigation: inline nav, hamburger button, conditional drawer
Render(ls, open) ==
  [nav |-> TRUE,
   closure |-> open,
   ariaExpanded |-> AriaExpanded(open),
   drawer |-> open,
   exiting |-> FALSE,
   inline |-> sortedLinks(ls),
   drawerList |-> IF open THEN sortedLinks(ls) ELSE << >>]

AnimatePresenceNoExit(old, new) == new

\* <AnimatePresence> around the conditional motion.div with an exit prop:
\* a panel that the render no longer returns stays in the document, as it
\* was, until its exit animation has completed; a panel returned again in
\* the meantime is the same element, entering
AnimatePresence(old, new) ==
  IF old.drawer /\ ~new.drawer
  THEN [new EXCEPT !.drawer = TRUE, !.exiting = TRUE, !.drawerList = old.drawerList]
  ELSE new

\* ------------------------------------------------------------------ effect
RegistersKeyUp(e) == e \in {"mousedown", "keyup"}

\* the event types the effect subscribes to
Registers(e) == e \in {"mousedown", "keydown"}

\* the two addEventListener calls, skipped by the early return
EffectRun(n, e, open) ==
  IF open /\ Registers(e) THEN n + 1 ELSE n

EffectCleanupKeeps(n, e, wasOpen) == n

\* the function the effect returned, if it got past the early return
EffectCleanup(n, e, wasOpen) ==
  IF wasOpen /\ Registers(e) /\ n > 0 THEN n - 1 ELSE n

\* listeners after committing a render of instance i: the effect depends on
\* [isMobileMenuOpen] and is re-run only when that changed
CommitEffect(n, e, old, new) ==
  IF old = new THEN n ELSE EffectRun(EffectCleanup(n, e, old), e, new)

UseStateInitOpen == TRUE

\* useState(false)
UseStateInit == FALSE

ToggleValueOpenOnly(rendered) == TRUE

\* the argument of setIsMobileMenuOpen in the button's onClick: the negation
\* of the value the render closed over
ToggleValue(rendered) == ~rendered

\* --------------------------------------------------------------- handlers
ContainsAnyInstance(i, part, t) == t.part = part

\* ref.current.contains(target), for menuRef ("drawer") and buttonRef ("toggle")
Contains(i, part, t) == t.w = i /\ t.part = part

HandleClickOutsideOfMenu(i, t) ==
  /\ dom[i].drawer /\ ~Contains(i, "drawer", t)
  /\ mounted[i]

HandleClickOutsideOfButton(i, t) ==
  /\ dom[i].drawer
  /\ mounted[i] /\ ~Contains(i, "toggle", t)

HandleClickOutsideBodyOnly(i, t) ==
  /\ dom[i].drawer /\ mounted[i] /\ t = Body

\* closeMobileMenu is called
HandleClickOutside(i, t) ==
  /\ dom[i].drawer /\ ~Contains(i, "drawer", t)
  /\ mounted[i] /\ ~Contains(i, "toggle", t)

HandleEscapeLegacyKey(key) == key = "Esc"

\* closeMobileMenu is called
HandleEscape(key) == key = "Escape"

InDom(t) ==
  IF t = Body THEN TRUE
  ELSE mounted[t.w] /\ (t.part = "drawer" => dom[t.w].drawer)

\* focus after a commit: an element that left the DOM loses it to the body
FocusAfter(f, m, d) ==
  IF f = Body THEN Body
  ELSE IF ~m[f.w] THEN Body
  ELSE IF f.part = "drawer" /\ ~d[f.w].drawer THEN Body
  ELSE f

NoRun == [w |-> 0, n |-> 0, pre |-> FALSE, prepre |-> FALSE, press |-> "none"]

\* the press a click on the toggle of instance i completes: "open" or
\* "closed", the flag of i before the mousedown, if the event before the
\* click was a mousedown on that toggle, and "none" otherwise
Press(i) ==
  IF last.kind = "mousedown" /\ last.target = [part |-> "toggle", w |-> i]
  THEN IF last.preOpen[i] THEN "open" ELSE "closed"
  ELSE "none"

NoChain == [n |-> 0, kinds |-> << >>, open |-> {}]

Outside(i, t) == ~Contains(i, "toggle", t) /\ ~Contains(i, "drawer", t)

\* the streak of closing events after one more of them: kind k on target t.
\* open holds the instances that were open before the first event of the
\* streak and for which every event of the streak is a closing trigger
Chained(k, t) ==
  LET closer(i) == k = "keydown" \/ Outside(i, t)
  IN IF chain.n = 1
     THEN [n |-> 2, kinds |-> Append(chain.kinds, k),
           open |-> {i \in chain.open : closer(i)}]
     ELSE [n |-> 1, kinds |-> << k >>,
           open |-> {i \in Widgets : mounted[i] /\ isMobileMenuOpen[i] /\ closer(i)}]

Dirty == [i \in Widgets |-> "dirty"]

Flip(p) == IF p = "even" THEN "odd" ELSE IF p = "odd" THEN "even" ELSE p

Event(kind, w, t, key, link, handled) ==
  [kind |-> kind, w |-> w, target |-> t, key |-> key, link |-> link,
   handled |-> handled, preOpen |-> isMobileMenuOpen,
   preMounted |-> mounted, preUrl |-> location, preScroll |-> scrollY,
   preListeners |-> listeners]

NoLink == [id |-> "", label |-> "", href |-> "", action |-> "", order |-> 0]

\* commit the renders that newOpen calls for
Commit(newOpen) ==
  /\ isMobileMenuOpen' = newOpen
  /\ dom' = [i \in Widgets |->
               IF mounted[i]
               THEN AnimatePresence(dom[i], Render(links, newOpen[i]))
               ELSE dom[i]]
  /\ listeners' = [e \in EventTypes |-> [i \in Widgets |->
               IF mounted[i]
               THEN CommitEffect(listeners[e][i], e, isMobileMenuOpen[i], newOpen[i])
               ELSE listeners[e][i]]]

\* the page shells play no part while the widget is driven on its own
NoPage == [module |-> "none"]

\* ------------------------------------------------------------ the catalog
\* links as they can be written in the constants module: valid ones that
\* share or differ in id and order, one with a label of 30 characters, and
\* one breach of every rule of the link schema. A number that is not an
\* integer is written as its integer part in order and its first decimal in
\* orderFraction (order: 1.5 is the last link)
RawLinkPool ==
  { NAV_LINKS[1], NAV_LINKS[2], NavigateFixture,
    [NAV_LINKS[1] EXCEPT !.order = 1],
    [NAV_LINKS[2] EXCEPT !.href = "http://localhost:3000"],
    [NAV_LINKS[2] EXCEPT !.id = ""],
    [NAV_LINKS[2] EXCEPT !.label = ""],
    [NAV_LINKS[2] EXCEPT !.href = ""],
    [NAV_LINKS[2] EXCEPT !.href = "work"],
    [NAV_LINKS[2] EXCEPT !.action = "open"],
    [NAV_LINKS[2] EXCEPT !.order = -1],
    [NAV_LINKS[2] EXCEPT !.label = "Selected Work and Case Studies"],
    [id |-> "work", label |-> "Work", href |-> "#", action |-> "placeholder",
     order |-> 1, orderFraction |-> 5] }

\* the catalog of the repository and every catalog of up to MaxCatalog links
RawCatalogs == {NAV_LINKS} \cup UNION {[1..n -> RawLinkPool] : n \in 0..MaxCatalog}

StartsWithHash(h) == h \in {"#", "#work"}

\* z.string().url()
IsUrl(h) == h \in {"http://localhost:3000"}

\* z.number().int(): the number has no fractional part
IsInt(l) == "orderFraction" \notin DOMAIN l \/ l.orderFraction = 0

NavigationLinkSchemaAnyNumber(l) ==
  /\ l.id # ""
  /\ l.label # ""
  /\ l.href # ""
  /\ StartsWithHash(l.href) \/ StartsWithSlash(l.href) \/ IsUrl(l.href)
  /\ l.action \in {"navigate", "scroll-to-top", "placeholder"}
  /\ l.order >= 0

NavigationLinkSchema(l) ==
  /\ l.id # ""
  /\ l.label # ""
  /\ l.href # ""
  /\ StartsWithHash(l.href) \/ StartsWithSlash(l.href) \/ IsUrl(l.href)
  /\ l.action \in {"navigate", "scroll-to-top", "placeholder"}
  /\ IsInt(l) /\ l.order >= 0

NavigationConfigSchemaIdsOnly(ls) ==
  /\ \A k \in 1..Len(ls) : NavigationLinkSchema(ls[k])
  /\ Len(ls) >= 1
  /\ Cardinality({ls[k].id : k \in 1..Len(ls)}) = Len(ls)

\* the links array of NavigationConfigSchema: every element parses, min(1),
\* and the two refinements that compare a Set's size with the array's length
NavigationConfigSchema(ls) ==
  /\ \A k \in 1..Len(ls) : NavigationLinkSchema(ls[k])
  /\ Len(ls) >= 1
  /\ Cardinality({ls[k].id : k \in 1..Len(ls)}) = Len(ls)
  /\ Cardinality({ls[k].order : k \in 1..Len(ls)}) = Len(ls)

\* ----------------------------------------------------------- the copyright
COPYRIGHT_OWNER == "Yarson"

Years == 2024..(2024 + MaxYears)

getCopyrightInfoAtLoad(now) == [year |-> page.loadYear, owner |-> COPYRIGHT_OWNER]

\* year: new Date().getFullYear(), now being the year the clock reads
getCopyrightInfo(now) == [year |-> now, owner |-> COPYRIGHT_OWNER]

CopyrightInfoSchema(info) == info.year \in Int /\ info.owner # ""

getCopyrightText(now) ==
  LET info == getCopyrightInfo(now)
  IN IF CopyrightInfoSchema(info)
     THEN "© " \o ToString(info.year) \o " " \o info.owner
     ELSE "ZodError"

\* ----------------------------------------------------------- the shells
FooterLinksAsGiven(ls) == ls

\* const sortedLinks = [...NAV_LINKS.links].sort(...) of Footer
FooterSortedLinks(ls) == SortCopy(ls).sorted

\* the widget is not mounted while the page is looked at on its own
WidgetIdle ==
  /\ links = << >>
  /\ mounted = [i \in Widgets |-> FALSE]
  /\ isMobileMenuOpen = [i \in Widgets |-> UseStateInit]
  /\ dom = [i \in Widgets |-> NoDom]
  /\ listeners = [e \in EventTypes |-> [i \in Widgets |-> 0]]
  /\ location = [path |-> "/", frag |-> ""]
  /\ scrollY = 0
  /\ focus = Body
  /\ viewport = "wide"
  /\ last = [kind |-> "init", w |-> 0, target |-> Body, key |-> "",
             link |-> NoLink, handled |-> {},
             preOpen |-> [i \in Widgets |-> UseStateInit],
             preMounted |-> [i \in Widgets |-> FALSE],
             preUrl |-> [path |-> "/", frag |-> ""], preScroll |-> 0,
             preListeners |-> [e \in EventTypes |-> [i \in Widgets |-> 0]]]
  /\ run = NoRun
  /\ chain = NoChain
  /\ taps = Dirty

\* before the constants module is evaluated: the catalog as written, the
\* clock at some year
InitPage ==
  /\ WidgetIdle
  /\ \E c \in RawCatalogs, y \in Years :
       page = [config |-> c, written |-> c, module |-> "pending",
               loadYear |-> y, clock |-> y,
               header |-> NoDom, footer |-> << >>, footerDone |-> FALSE,
               text |-> "", prevText |-> "", last |-> "init"]

\* the constants module is evaluated: NavigationConfigSchema.parse(NAV_LINKS)
\* throws or lets the import finish
LoadModule ==
  /\ page.module = "pending"
  /\ page' = [page EXCEPT
       !.module = IF NavigationConfigSchema(page.config) THEN "loaded" ELSE "threw",
       !.loadYear = page.clock,
       !.last = "load"]
  /\ UNCHANGED widgetVars

\* Header renders <Navigation links={NAV_LINKS.links}/>
RenderHeader ==
  /\ page.module = "loaded"
  /\ page' = [page EXCEPT
       !.header = Render(page.config, UseStateInit),
       !.config = SortCopy(page.config).source,
       !.last = "header"]
  /\ UNCHANGED widgetVars

\* the header's Navigation renders again with its menu open; useMemo hands
\* back the sorted copy of the first render as links is the same array
RenderDrawer ==
  /\ page.module = "loaded"
  /\ page.header.nav /\ ~page.header.drawer
  /\ page' = [page EXCEPT
       !.header = [@ EXCEPT !.closure = TRUE, !.ariaExpanded = AriaExpanded(TRUE),
                            !.drawer = TRUE, !.drawerList = page.header.inline],
       !.last = "drawer"]
  /\ UNCHANGED widgetVars

\* Footer renders: sorted copy of the catalog and getCopyrightText()
RenderFooter ==
  /\ page.module = "loaded"
  /\ page' = [page EXCEPT
       !.footer = FooterSortedLinks(page.config),
       !.config = SortCopy(page.config).source,
       !.footerDone = TRUE,
       !.prevText = page.text,
       !.text = getCopyrightText(page.clock),
       !.last = "footer"]
  /\ UNCHANGED widgetVars

\* the wall clock passes into the next year
Tick ==
  /\ page.clock + 1 \in Years
  /\ page' = [page EXCEPT !.clock = @ + 1, !.last = "tick"]
  /\ UNCHANGED widgetVars

NextPage ==
  \/ LoadModule
  \/ RenderHeader
  \/ RenderDrawer
  \/ RenderFooter
  \/ Tick

SpecPage == InitPage /\ [][NextPage]_vars

\* ------------------------------------------------------------------- Init
Init ==
  /\ links \in LinkInputs
  /\ mounted = [i \in Widgets |-> i = HeaderNavigation]
  /\ isMobileMenuOpen = [i \in Widgets |-> UseStateInit]
  /\ dom = [i \in Widgets |->
              IF i = HeaderNavigation THEN Render(links, UseStateInit) ELSE NoDom]
  /\ listeners = [e \in EventTypes |-> [i \in Widgets |-> 0]]
  /\ location = [path |-> "/", frag |-> ""]
  /\ scrollY = 0
  /\ focus = Body
  /\ viewport \in Viewports
  /\ last = [kind |-> "init", w |-> 0, target |-> Body, key |-> "",
             link |-> NoLink, handled |-> {},
             preOpen |-> [i \in Widgets |-> UseStateInit],
             preMounted |-> [i \in Widgets |-> i = HeaderNavigation],
             preUrl |-> [path |-> "/", frag |-> ""], preScroll |-> 0,
             preListeners |-> [e \in EventTypes |-> [i \in Widgets |-> 0]]]
  /\ run = NoRun
  /\ chain = NoChain
  /\ taps = [i \in Widgets |-> IF i = HeaderNavigation THEN "even" ELSE "dirty"]
  /\ page = NoPage

\* ---------------------------------------------------------------- actions
\* Navigation() is rendered for the first time
Mount(i) ==
  /\ ~mounted[i]
  /\ mounted' = [mounted EXCEPT ![i] = TRUE]
  /\ isMobileMenuOpen' = [isMobileMenuOpen EXCEPT ![i] = UseStateInit]
  /\ dom' = [dom EXCEPT ![i] = Render(links, UseStateInit)]
  /\ listeners' = [e \in EventTypes |->
        [listeners[e] EXCEPT ![i] = EffectRun(@, e, UseStateInit)]]
  /\ last' = Event("mount", i, Body, "", NoLink, {})
  /\ run' = NoRun
  /\ chain' = NoChain
  /\ taps' = [j \in Widgets |-> IF j = i THEN "even" ELSE "dirty"]
  /\ UNCHANGED page
  /\ UNCHANGED << links, location, scrollY, focus, viewport >>

UnmountLeaky(i) ==
  /\ mounted[i]
  /\ mounted' = [mounted EXCEPT ![i] = FALSE]
  /\ dom' = [dom EXCEPT ![i] = NoDom]
  /\ focus' = FocusAfter(focus, mounted', dom')
  /\ last' = Event("unmount", i, Body, "", NoLink, {})
  /\ run' = NoRun
  /\ chain' = NoChain
  /\ taps' = Dirty
  /\ UNCHANGED page
  /\ UNCHANGED << links, isMobileMenuOpen, listeners, location, scrollY, viewport >>

\* the instance leaves the tree: React runs the cleanup of its last effect
\* and drops its state (the flag keeps its last value here, so that a later
\* write to it would show)
Unmount(i) ==
  /\ mounted[i]
  /\ mounted' = [mounted EXCEPT ![i] = FALSE]
  /\ dom' = [dom EXCEPT ![i] = NoDom]
  /\ listeners' = [e \in EventTypes |->
        [listeners[e] EXCEPT ![i] = EffectCleanup(@, e, isMobileMenuOpen[i])]]
  /\ focus' = FocusAfter(focus, mounted', dom')
  /\ last' = Event("unmount", i, Body, "", NoLink, {})
  /\ run' = NoRun
  /\ chain' = NoChain
  /\ taps' = Dirty
  /\ UNCHANGED page
  /\ UNCHANGED << links, isMobileMenuOpen, location, scrollY, viewport >>

\* the exit animation of the drawer panel has completed: AnimatePresence
\* removes the panel from the document
ExitComplete(i) ==
  /\ mounted[i] /\ dom[i].exiting
  /\ dom' = [dom EXCEPT ![i] = [@ EXCEPT !.drawer = FALSE, !.exiting = FALSE,
                                         !.drawerList = << >>]]
  /\ focus' = FocusAfter(focus, mounted, dom')
  /\ last' = Event("exitcomplete", i, [part |-> "drawer", w |-> i], "", NoLink, {})
  /\ run' = NoRun
  /\ chain' = NoChain
  /\ taps' = Dirty
  /\ UNCHANGED page
  /\ UNCHANGED << links, mounted, isMobileMenuOpen, listeners, location, scrollY,
                  viewport >>

\* onClick of the hamburger button
ToggleClick(i) ==
  /\ mounted[i]
  /\ Commit([isMobileMenuOpen EXCEPT ![i] = ToggleValue(dom[i].closure)])
  /\ focus' = FocusAfter(focus, mounted, dom')
  /\ last' = Event("toggle", i, [part |-> "toggle", w |-> i], "", NoLink, {})
  /\ run' = IF run.w = i
            THEN [w |-> i, n |-> 2, pre |-> isMobileMenuOpen[i], prepre |-> run.pre,
                  press |-> Press(i)]
            ELSE [w |-> i, n |-> 1, pre |-> isMobileMenuOpen[i],
                  prepre |-> isMobileMenuOpen[i], press |-> Press(i)]
  /\ chain' = NoChain
  /\ taps' = [taps EXCEPT ![i] = Flip(@)]
  /\ UNCHANGED page
  /\ UNCHANGED << links, mounted, location, scrollY, viewport >>

\* two click events are dispatched on the hamburger button within one task
\* (button.click(); button.click()): React renders in a microtask after the
\* task, so both onClick closures are those of the same render and the queued
\* updates are applied in order by the one render that follows
ToggleBatch(i) ==
  /\ mounted[i]
  /\ LET queue == << ToggleValue(dom[i].closure), ToggleValue(dom[i].closure) >>
     IN Commit([isMobileMenuOpen EXCEPT ![i] = queue[Len(queue)]])
  /\ focus' = FocusAfter(focus, mounted, dom')
  /\ last' = Event("togglebatch", i, [part |-> "toggle", w |-> i], "", NoLink, {})
  /\ run' = [w |-> i, n |-> 2, pre |-> isMobileMenuOpen[i],
             prepre |-> isMobileMenuOpen[i], press |-> "none"]
  /\ chain' = NoChain
  /\ taps' = [taps EXCEPT ![i] = Flip(Flip(@))]
  /\ UNCHANGED page
  /\ UNCHANGED << links, mounted, location, scrollY, viewport >>

\* a mousedown event is dispatched on t and bubbles to the document
MouseDown(t) ==
  /\ InDom(t)
  /\ LET handled == {i \in Widgets : listeners["mousedown"][i] > 0}
         newOpen == [i \in Widgets |->
                       IF i \in handled /\ mounted[i] /\ HandleClickOutside(i, t)
                       THEN FALSE ELSE isMobileMenuOpen[i]]
     IN /\ Commit(newOpen)
        /\ focus' = FocusAfter(IF t.part = "toggle" \/ Len(links) > 0 THEN t ELSE Body,
                               mounted, dom')
        /\ last' = Event("mousedown", 0, t, "", NoLink, handled)
  /\ run' = NoRun
  /\ chain' = Chained("mousedown", t)
  /\ taps' = Dirty
  /\ UNCHANGED page
  /\ UNCHANGED << links, mounted, location, scrollY, viewport >>

\* a key event of type e (keydown or keyup) reaches the document
KeyEvent(e, key) ==
  /\ e \in {"keydown", "keyup"}
  /\ LET handled == {i \in Widgets : listeners[e][i] > 0}
         newOpen == [i \in Widgets |->
                       IF i \in handled /\ mounted[i] /\ HandleEscape(key)
                       THEN FALSE ELSE isMobileMenuOpen[i]]
     IN /\ Commit(newOpen)
        /\ focus' = FocusAfter(focus, mounted, dom')
        /\ last' = Event(e, 0, focus, key, NoLink, handled)
  /\ run' = NoRun
  /\ chain' = IF e = "keydown" /\ key = "Escape" THEN Chained(e, focus) ELSE NoChain
  /\ taps' = Dirty
  /\ UNCHANGED page
  /\ UNCHANGED << links, mounted, location, scrollY, viewport >>

LinkClickToggles(i, list, k) ==
  /\ mounted[i]
  /\ list \in {"inline", "drawer"}
  /\ k \in 1..Len(IF list = "inline" THEN dom[i].inline ELSE dom[i].drawerList)
  /\ LET link == (IF list = "inline" THEN dom[i].inline ELSE dom[i].drawerList)[k]
     IN /\ location' = Navigate(location, link.href)
        /\ scrollY' \in ScrollAfter(link.href, scrollY)
        /\ last' = Event("linkclick", i, [part |-> list, w |-> i], "", link, {})
  /\ Commit([isMobileMenuOpen EXCEPT ![i] = ~@])
  /\ focus' = [part |-> list, w |-> i]
  /\ run' = NoRun
  /\ chain' = NoChain
  /\ taps' = Dirty
  /\ UNCHANGED page
  /\ UNCHANGED << links, mounted, viewport >>

LinkClickDrawerIntercepts(i, list, k) ==
  /\ mounted[i]
  /\ list \in {"inline", "drawer"}
  /\ k \in 1..Len(IF list = "inline" THEN dom[i].inline ELSE dom[i].drawerList)
  /\ LET link == (IF list = "inline" THEN dom[i].inline ELSE dom[i].drawerList)[k]
     IN /\ location' = IF list = "drawer" THEN location
                       ELSE Navigate(location, link.href)
        /\ scrollY' \in IF list = "drawer" THEN {scrollY}
                        ELSE ScrollAfter(link.href, scrollY)
        /\ last' = Event("linkclick", i, [part |-> list, w |-> i], "", link, {})
  /\ Commit(isMobileMenuOpen)
  /\ focus' = [part |-> list, w |-> i]
  /\ run' = NoRun
  /\ chain' = NoChain
  /\ taps' = Dirty
  /\ UNCHANGED page
  /\ UNCHANGED << links, mounted, viewport >>

\* the k-th <Link> of the inline or of the drawer list is activated; the
\* widget attaches no onClick to it, so the link follows its href
LinkClick(i, list, k) ==
  /\ mounted[i]
  /\ list \in {"inline", "drawer"}
  /\ k \in 1..Len(IF list = "inline" THEN dom[i].inline ELSE dom[i].drawerList)
  /\ LET link == (IF list = "inline" THEN dom[i].inline ELSE dom[i].drawerList)[k]
     IN /\ location' = Navigate(location, link.href)
        /\ scrollY' \in ScrollAfter(link.href, scrollY)
        /\ last' = Event("linkclick", i, [part |-> list, w |-> i], "", link, {})
  /\ Commit(isMobileMenuOpen)
  /\ focus' = [part |-> list, w |-> i]
  /\ run' = NoRun
  /\ chain' = NoChain
  /\ taps' = Dirty
  /\ UNCHANGED page
  /\ UNCHANGED << links, mounted, viewport >>

\* the user scrolls the page
Scroll(y) ==
  /\ y \in 0..MaxScroll
  /\ y # scrollY
  /\ scrollY' = y
  /\ last' = Event("scroll", 0, Body, "", NoLink, {})
  /\ run' = NoRun
  /\ chain' = NoChain
  /\ taps' = Dirty
  /\ UNCHANGED page
  /\ UNCHANGED << links, mounted, isMobileMenuOpen, dom, listeners, location,
                  focus, viewport >>

ResizeCloses(v) ==
  /\ v \in Viewports
  /\ v # viewport
  /\ viewport' = v
  /\ Commit([i \in Widgets |-> IF v = "wide" THEN FALSE ELSE isMobileMenuOpen[i]])
  /\ last' = Event("resize", 0, Body, "", NoLink, {})
  /\ run' = NoRun
  /\ chain' = NoChain
  /\ taps' = Dirty
  /\ UNCHANGED page
  /\ UNCHANGED << links, mounted, location, scrollY, focus >>

\* the window crosses the sm breakpoint; the widget has no resize handler
Resize(v) ==
  /\ v \in Viewports
  /\ v # viewport
  /\ viewport' = v
  /\ last' = Event("resize", 0, Body, "", NoLink, {})
  /\ run' = NoRun
  /\ chain' = NoChain
  /\ taps' = Dirty
  /\ UNCHANGED page
  /\ UNCHANGED << links, mounted, isMobileMenuOpen, dom, listeners, location,
                  scrollY, focus >>

\* the page: the one Navigation of the Header, and every event of its window
Next ==
  \/ Mount(HeaderNavigation)
  \/ Unmount(HeaderNavigation)
  \/ ExitComplete(HeaderNavigation)
  \/ ToggleClick(HeaderNavigation)
  \/ ToggleBatch(HeaderNavigation)
  \/ \E t \in Targets : MouseDown(t)
  \/ \E e \in {"keydown", "keyup"}, key \in Keys : KeyEvent(e, key)
  \/ \E list \in {"inline", "drawer"}, k \in 1..MaxLinks :
        LinkClick(HeaderNavigation, list, k)
  \/ \E y \in 0..MaxScroll : Scroll(y)
  \/ \E v \in Viewports : Resize(v)

Spec == Init /\ [][Next]_vars

\* two Navigation instances in one document: the events that reach the
\* handlers of both
NextTwo ==
  \/ \E i \in Widgets : Mount(i)
  \/ \E i \in Widgets : Unmount(i)
  \/ \E i \in Widgets : ExitComplete(i)
  \/ \E i \in Widgets : ToggleClick(i)
  \/ \E i \in Widgets : ToggleBatch(i)
  \/ \E t \in Targets : MouseDown(t)
  \/ \E e \in {"keydown", "keyup"}, key \in Keys : KeyEvent(e, key)

SpecTwo == Init /\ [][NextTwo]_vars

\* ------------------------------------------------------------- properties
DocEvents == {"mousedown", "keydown", "keyup"}

\* C1: an instance that has just been mounted has isMobileMenuOpen = FALSE,
\* whatever the links input and whatever the flag was before an earlier unmount
C1_ClosedOnMount ==
  /\ last.kind = "init" => \A i \in Widgets : mounted[i] => ~isMobileMenuOpen[i]
  /\ last.kind = "mount" => ~isMobileMenuOpen[last.w]

\* an instance unmounted while open is mounted again, with a non-empty input
C1_Witness ==
  last.kind = "mount" /\ last.preOpen[last.w] /\ Len(links) > 0

\* C2: a toggle activation leaves the flag negated, and two consecutive toggle
\* activations of one instance, with no other event in between, leave it as it
\* was before the first
C2_ToggleRoundTrip ==
  /\ run.n >= 1 => isMobileMenuOpen[run.w] = ~run.pre
  /\ run.n = 2 => isMobileMenuOpen[run.w] = run.prepre

\* C3: a mousedown whose target is outside the toggle and the drawer of an
\* open instance leaves that instance closed
C3_OutsidePointerDownCloses ==
  \A i \in Widgets :
    (last.kind = "mousedown" /\ last.preMounted[i] /\ last.preOpen[i]
       /\ Outside(i, last.target))
    => ~isMobileMenuOpen[i]

\* the press lands on an inline link of the open instance
C3_Witness ==
  /\ last.kind = "mousedown" /\ last.target.part = "inline"
  /\ last.preMounted[last.target.w] /\ last.preOpen[last.target.w]

\* C4 as stated: an Escape key-up closes an open instance
C4_EscapeKeyUpCloses ==
  \A i \in Widgets :
    (last.kind = "keyup" /\ last.key = "Escape" /\ last.preMounted[i]
       /\ last.preOpen[i])
    => ~isMobileMenuOpen[i]

\* C4 amended: an Escape key-down closes every open instance, wherever the
\* focus is
C4_EscapeKeyDownCloses ==
  \A i \in Widgets :
    (last.kind = "keydown" /\ last.key = "Escape" /\ last.preMounted[i]
       /\ last.preOpen[i])
    => ~isMobileMenuOpen[i]

\* Escape goes down while the focus is on a drawer link of the open instance
C4_Witness ==
  /\ last.kind = "keydown" /\ last.key = "Escape"
  /\ last.target.part = "drawer" /\ last.preOpen[last.target.w]

\* C5: activating a link of the drawer leaves the instance closed, whatever
\* the link's action tag
C5_DrawerLinkCloses ==
  (last.kind = "linkclick" /\ last.target.part = "drawer")
  => ~isMobileMenuOpen[last.w]

\* C6: activating a placeholder link leaves the URL as it was, in both
\* lists, and a drawer link also leaves the instance closed
C6_PlaceholderSuppressed ==
  (last.kind = "linkclick" /\ last.link.action = "placeholder")
  => /\ location = last.preUrl
     /\ last.target.part = "drawer" => ~isMobileMenuOpen[last.w]

\* C7: activating a scroll-to-top link does not navigate: the URL is as it
\* was and the scroll offset is 0
C7_ScrollToTop ==
  (last.kind = "linkclick" /\ last.link.action = "scroll-to-top")
  => /\ location = last.preUrl
     /\ scrollY = 0

\* C8: the aria-expanded attribute of every mounted instance equals its flag,
\* in every state and so after every transition
C8_AriaExpandedInSync ==
  \A i \in Widgets : mounted[i] => dom[i].ariaExpanded = isMobileMenuOpen[i]

\* the flag of a mounted instance has just been changed by a document event
C8_Witness ==
  \E i \in Widgets :
    /\ mounted[i] /\ last.preMounted[i] /\ last.kind \in DocEvents
    /\ last.preOpen[i] # isMobileMenuOpen[i]

\* C9: a mounted instance holds exactly one mousedown and one keydown listener
\* while open and no listener at all while closed
C9_ListenersWhileOpen ==
  \A i \in Widgets : mounted[i] =>
    IF isMobileMenuOpen[i]
    THEN /\ listeners["mousedown"][i] = 1
         /\ listeners["keydown"][i] = 1
    ELSE \A e \in EventTypes : listeners[e][i] = 0

\* an instance that held the pair has just gone back to Closed
C9_Witness ==
  \E i \in Widgets :
    /\ mounted[i] /\ last.preMounted[i] /\ ~isMobileMenuOpen[i]
    /\ last.preOpen[i] /\ last.preListeners["mousedown"][i] = 1
    /\ last.preListeners["keydown"][i] = 1

\* C10: an unmounted instance holds no listener, and a document event that
\* follows its unmount runs none of its handlers and leaves its flag alone
C10_UnmountReleases ==
  \A i \in Widgets : ~mounted[i] =>
    /\ \A e \in EventTypes : listeners[e][i] = 0
    /\ (last.kind \in DocEvents /\ ~last.preMounted[i])
         => (i \notin last.handled /\ isMobileMenuOpen[i] = last.preOpen[i])

\* an instance was unmounted while open and Escape is pressed afterwards
C10_Witness ==
  \E i \in Widgets :
    /\ ~mounted[i] /\ ~last.preMounted[i] /\ isMobileMenuOpen[i]
    /\ last.kind = "keydown" /\ last.key = "Escape"

\* ------------------------------------------------- properties of the lists
Count(s, x) == Cardinality({k \in 1..Len(s) : s[k] = x})

\* a holds the entries of b, each as often as b does
SameEntries(a, b) ==
  /\ Len(a) = Len(b)
  /\ \A k \in 1..Len(b) : Count(a, b[k]) = Count(b, b[k])

Ascending(s) == \A j, k \in 1..Len(s) : j < k => s[j].order <= s[k].order

Labels(s) == [k \in 1..Len(s) |-> s[k].label]

\* C12: the inline list of a mounted instance, and its drawer list while it
\* is open, hold exactly the input links, with their labels, in ascending order
C12_ListsSortedAndComplete ==
  \A i \in Widgets : mounted[i] =>
    /\ SameEntries(dom[i].inline, links) /\ Ascending(dom[i].inline)
    /\ isMobileMenuOpen[i] =>
         (/\ SameEntries(dom[i].drawerList, links) /\ Ascending(dom[i].drawerList)
          /\ Labels(dom[i].drawerList) = Labels(dom[i].inline))

\* an open instance renders an input that was written out of order
C12_Witness ==
  \E i \in Widgets :
    mounted[i] /\ isMobileMenuOpen[i] /\ Len(links) >= 2 /\ ~Ascending(links)

\* C14: a just mounted (closed) instance given an ascending catalog renders
\* as many links as the catalog has, the k-th with the label and the href of
\* the k-th entry
C14_InitialRenderMatchesCatalog ==
  \A i \in Widgets :
    (/\ mounted[i] /\ Ascending(links)
     /\ last.kind = "init" \/ (last.kind = "mount" /\ last.w = i))
    => LET all == dom[i].inline \o dom[i].drawerList
       IN /\ Len(all) = Len(links)
          /\ \A k \in 1..Len(links) :
                all[k].label = links[k].label /\ all[k].href = links[k].href

\* an instance has just been mounted with two or more links in ascending order
C14_Witness ==
  last.kind = "mount" /\ mounted[last.w] /\ Len(links) >= 2 /\ Ascending(links)

C18_PressLeavesOthers ==
  (last.kind = "toggle" \/ (last.kind = "mousedown" /\ last.target.part = "toggle"))
  => \A j \in Widgets \ {last.target.w} : isMobileMenuOpen[j] = last.preOpen[j]

\* C18 amended: the click on the toggle of one instance changes the flag of
\* that instance only; the mousedown of the press leaves that instance alone
\* and closes every other mounted instance, being outside of it
C18_ClickOwnMouseDownClosesOthers ==
  /\ last.kind \in {"toggle", "togglebatch"}
       => \A j \in Widgets \ {last.w} : isMobileMenuOpen[j] = last.preOpen[j]
  /\ (last.kind = "mousedown" /\ last.target.part = "toggle")
       => /\ isMobileMenuOpen[last.target.w] = last.preOpen[last.target.w]
          /\ \A j \in Widgets \ {last.target.w} :
                IF mounted[j] THEN ~isMobileMenuOpen[j]
                ELSE isMobileMenuOpen[j] = last.preOpen[j]

\* both instances are open and the toggle of one is pressed
C18_Witness ==
  /\ last.kind = "mousedown" /\ last.target.part = "toggle"
  /\ \A j \in Widgets : mounted[j] /\ last.preOpen[j]

\* C19: an instance that was open before an outside mousedown or an Escape
\* keydown is closed after it, and is still closed after a second one of the
\* two delivered right after, in either order
C19_ClosingEventsConverge ==
  chain.n \in {1, 2} => \A i \in chain.open : ~isMobileMenuOpen[i]

\* Escape, then an outside mousedown, on an instance that was open
C19_Witness ==
  chain.n = 2 /\ chain.kinds = << "keydown", "mousedown" >> /\ chain.open # {}

\* C20: after n toggle activations and nothing else since the mount, the flag
\* is TRUE exactly when n is odd, also when an activation is handled before
\* the render that follows the previous one
C20_ParityOfToggles ==
  \A i \in Widgets : mounted[i] =>
    /\ taps[i] = "odd" => isMobileMenuOpen[i]
    /\ taps[i] = "even" => ~isMobileMenuOpen[i]

\* ------------------------------------------------- properties of the page
DistinctIds(ls) == \A a, b \in 1..Len(ls) : a # b => ls[a].id # ls[b].id

DistinctOrders(ls) == \A a, b \in 1..Len(ls) : a # b => ls[a].order # ls[b].order

C13_FooterMatchesHeader ==
  (page.module = "loaded" /\ page.header.nav /\ page.footerDone)
  => /\ page.footer = page.header.inline
     /\ Ascending(page.footer)
     /\ SameEntries(page.footer, page.written)

\* both are rendered from a catalog written out of order
C13_Witness ==
  /\ page.module = "loaded" /\ page.header.nav /\ page.footerDone
  /\ Len(page.written) >= 2 /\ ~Ascending(page.written)

\* C15: the text a Footer render has just computed is the copyright sign, the
\* year the clock reads at that moment and the owner Yarson
C15_CopyrightText ==
  page.last = "footer" =>
    /\ page.text = "© " \o ToString(page.clock) \o " Yarson"
    /\ page.clock = 2024 => page.text = "© 2024 Yarson"
    /\ page.clock = 2025 => page.text = "© 2025 Yarson"

\* a render in 2025 follows one that gave the text of 2024
C15_Witness ==
  /\ page.last = "footer" /\ page.clock = 2025
  /\ page.prevText = "© 2024 Yarson" /\ page.loadYear = 2024

\* C17: after any renderings of header, drawer and footer the catalog is the
\* sequence that was written in the constants module
C17_CatalogNotMutated ==
  page.module = "loaded" => page.config = page.written

\* header, drawer and footer were rendered from a catalog written out of order
C17_Witness ==
  /\ page.module = "loaded" /\ page.header.drawer /\ page.footerDone
  /\ ~Ascending(page.written)

\* C21: a catalog that holds a link whose label is longer than 20 characters
\* does not load
C21_LongLabelRejected ==
  page.module = "loaded" =>
    \A k \in 1..Len(page.written) : Len(page.written[k].label) <= 20

\* C22 as stated: the drawer panel of a mounted instance is in the document
\* exactly while its flag is TRUE, and so are the links of the panel
C22_DrawerExactlyWhileOpen ==
  \A i \in Widgets : mounted[i] =>
    /\ dom[i].drawer = isMobileMenuOpen[i]
    /\ dom[i].drawerList # << >> => isMobileMenuOpen[i]

\* C22 amended: while the flag is TRUE the panel is in the document with the
\* sorted links; once the flag has gone back to FALSE the panel stays, with
\* its links, as a leaving element until its exit animation has completed;
\* it is absent after the mount and after a completed exit
C22_DrawerWhileOpenOrLeaving ==
  \A i \in Widgets : mounted[i] =>
    /\ isMobileMenuOpen[i] =>
         dom[i].drawer /\ ~dom[i].exiting /\ dom[i].drawerList = sortedLinks(links)
    /\ ~isMobileMenuOpen[i] => (dom[i].drawer <=> dom[i].exiting)
    /\ ~dom[i].drawer => dom[i].drawerList = << >>
    /\ (last.preMounted[i] /\ last.preOpen[i] /\ ~isMobileMenuOpen[i])
         => dom[i].exiting /\ dom[i].drawerList = sortedLinks(links)
    /\ (last.kind \in {"init", "mount", "exitcomplete"} /\ ~isMobileMenuOpen[i]
          /\ (last.kind = "init" \/ last.w = i))
         => ~dom[i].drawer

\* the flag of an instance went back to FALSE and its panel, with links, is
\* still in the document
C22_Witness ==
  \E i \in Widgets :
    /\ mounted[i] /\ ~isMobileMenuOpen[i] /\ dom[i].exiting
    /\ Len(dom[i].drawerList) > 0

\* C23: when a toggle activation takes an instance with links from Closed to
\* Open, the keyboard focus is on a link of its drawer afterwards
C23_FocusFirstDrawerLink ==
  (/\ last.kind = "toggle" /\ Len(links) > 0
   /\ ~last.preOpen[last.w] /\ isMobileMenuOpen[last.w])
  => focus = [part |-> "drawer", w |-> last.w]

\* C24: the URL and the scroll offset after a link activation are those of
\* following the link's href from the URL and the offset before it, in the
\* inline list and in the drawer list alike and whatever the action tag; a
\* link tagged navigate is followed in both
C24_SameDispatchInBothLists ==
  last.kind = "linkclick" =>
    /\ location = Navigate(last.preUrl, last.link.href)
    /\ scrollY \in ScrollAfter(last.link.href, last.preScroll)
    /\ last.link.action = "navigate" => location.frag = last.link.href

\* a link tagged navigate was activated in the drawer and the URL changed
C24_Witness ==
  /\ last.kind = "linkclick" /\ last.target.part = "drawer"
  /\ last.link.action = "navigate" /\ location # last.preUrl

\* C25: a mousedown on the toggle of an open instance followed by the click
\* on it leaves the instance closed: the mousedown left it open and the click
\* closed it
C25_PressOnToggleCloses ==
  /\ (last.kind = "toggle" /\ run.press = "open")
       => run.pre /\ ~isMobileMenuOpen[last.w]
  /\ (last.kind = "mousedown" /\ last.target.part = "toggle"
        /\ last.preMounted[last.target.w] /\ last.preOpen[last.target.w])
       => isMobileMenuOpen[last.target.w]

\* the click of a press that began on the toggle of an open instance
C25_Witness ==
  last.kind = "toggle" /\ run.press = "open" /\ mounted[last.w]

\* C26: a mousedown inside the drawer panel or on the toggle of an open
\* instance leaves that instance open
C26_InsidePointerDownKeepsOpen ==
  \A i \in Widgets :
    (/\ last.kind = "mousedown" /\ last.preMounted[i] /\ last.preOpen[i]
     /\ Contains(i, "drawer", last.target) \/ Contains(i, "toggle", last.target))
    => isMobileMenuOpen[i]

\* the mousedown of a press on a link of the drawer of an open instance
C26_Witness ==
  /\ last.kind = "mousedown" /\ last.target.part = "drawer"
  /\ last.preOpen[last.target.w] /\ isMobileMenuOpen[last.target.w]
  /\ Len(dom[last.target.w].drawerList) > 0

\* C27: a mousedown, a key event or the activation of an inline link leaves a
\* closed instance closed, and an instance that stayed mounted goes from
\* Closed to Open only by an activation of its own toggle
C27_OnlyToggleOpens ==
  \A i \in Widgets :
    /\ (/\ last.preMounted[i] /\ mounted[i] /\ ~last.preOpen[i]
        /\ \/ last.kind \in DocEvents
           \/ last.kind = "linkclick" /\ last.target.part = "inline")
       => ~isMobileMenuOpen[i]
    /\ (last.preMounted[i] /\ mounted[i] /\ ~last.preOpen[i] /\ isMobileMenuOpen[i])
       => (last.kind \in {"toggle", "togglebatch"} /\ last.w = i)

\* Escape went down while a mounted instance was closed
C27_Witness ==
  /\ last.kind = "keydown" /\ last.key = "Escape"
  /\ \E i \in Widgets : last.preMounted[i] /\ mounted[i] /\ ~last.preOpen[i]

\* C28: a resize leaves every flag and every listener as it was; an instance
\* that is open when the window becomes wide stays open with its mousedown
\* and its keydown listener
C28_ResizeKeepsState ==
  last.kind = "resize" =>
    /\ isMobileMenuOpen = last.preOpen
    /\ listeners = last.preListeners
    /\ \A i \in Widgets : (mounted[i] /\ last.preOpen[i]) =>
          /\ isMobileMenuOpen[i]
          /\ listeners["mousedown"][i] = 1 /\ listeners["keydown"][i] = 1

\* the window became wide while an instance was open
C28_Witness ==
  /\ last.kind = "resize" /\ viewport = "wide"
  /\ \E i \in Widgets : mounted[i] /\ last.preOpen[i]

\* C29: in every state the toggle of a mounted instance can be activated, and
\* the activation takes an open instance to Closed and a closed one to Open
C29_NoTerminalState ==
  \A i \in Widgets : mounted[i] =>
    /\ ENABLED ToggleClick(i)
    /\ isMobileMenuOpen[i] => ENABLED (ToggleClick(i) /\ ~isMobileMenuOpen'[i])
    /\ ~isMobileMenuOpen[i] => ENABLED (ToggleClick(i) /\ isMobileMenuOpen'[i])

\* a mounted instance is open after the activation of one of its drawer links
C29_Witness ==
  /\ last.kind = "linkclick" /\ last.target.part = "drawer"
  /\ mounted[last.w] /\ isMobileMenuOpen[last.w]

\* what the link rules ask of a link: id, label and href not empty, href an
\* anchor, a path or an absolute URL, action one of the three tags, order an
\* integer that is not negative
Acceptable(l) ==
  /\ l.id # "" /\ l.label # "" /\ l.href # ""
  /\ l.href \in {"#", "#work", "/", "http://localhost:3000"}
  /\ l.action \in {"navigate", "scroll-to-top", "placeholder"}
  /\ l.order \in Nat
  /\ "orderFraction" \in DOMAIN l => l.orderFraction = 0

====
